---- MODULE Spec2Model ----
(***************************************************************************)
(* Model of key-dedupe.py: the keyword standardisation pipeline            *)
(*   main -> process_directory (collect, process_keywords, canonicalise)   *)
(*        -> update_metadata (write).                                      *)
(* Strings are atomic in TLC, so str.lower, str.replace and inflect's      *)
(* singular_noun are tables over the model's vocabulary.                   *)
(***************************************************************************)
EXTENDS Integers, Sequences, FiniteSets, TLC

\* ------------------------------------------------------------------ bounds
\* Number of files os.walk yields.
NumFiles == 2
\* Longest keyword list handed to process_keywords on its own (SpecPK).
MaxKeywords == 5

Files == 1..NumFiles

\* ------------------------------------------------------------- vocabulary
\* Lowercase keywords that can reach process_keywords.
Words == {"dog", "dogs", "hound", "hot dog"}

\* Lemma names as the dictionary stores them (multi-word lemmas use "_").
LemmaNames == {"dog", "hound", "hot_dog"}

\* A metadata value that the metadata tool hands back as a number, not a str.
Numbers == {"2024"}

\* str.lower()
Lower(s) ==
    CASE s = "Dog" -> "dog"
      [] s = "Hound" -> "hound"
      [] OTHER -> s

\* str.replace('_', ' ')
ReplaceUnderscore(s) == IF s = "hot_dog" THEN "hot dog" ELSE s

\* inflect's p.singular_noun(word): the singular, or a falsy value ("")
\* when the word is not recognised as a plural.
singular_noun(word) == IF word = "dogs" THEN "dog" ELSE ""

\* ----------------------------------------------------------------- helpers
\* All orders in which a Python set S can be iterated.
Perms(S) ==
    {s \in [1..Cardinality(S) -> S] : \A x \in S : \E i \in DOMAIN s : s[i] = x}

\* The elements of a sequence.
Range(s) == {s[i] : i \in DOMAIN s}

\* Keys of a dict with integer keys inserted in ascending order, after key i.
KeysAfter(d, i) == {f \in DOMAIN d : f > i}

\* The smallest element of a non-empty set of integers.
Min(S) == CHOOSE x \in S : \A y \in S : x <= y

\* ------------------------------------------------------------ pure functions
METADATA_FIELDS == <<"XMP:Subject", "IPTC:Keywords", "MWG:Keywords", "Keywords">>

\* handle_plurals(word)
handle_plurals(word) ==
    LET singular == singular_noun(word)
    IN  IF singular # "" THEN singular ELSE word

\* A metadata field: absent, a scalar, or a list (its elements as a set; the
\* code only ever merges a list into a set).
Absent == [kind |-> "absent", vals |-> {}]
Scalar(s) == [kind |-> "scalar", vals |-> {s}]
List(S) == [kind |-> "list", vals |-> S]

\* The set `keywords` built by the loop of extract_keywords (lines 35-42).
MergedValues(metadata) ==
    UNION {metadata[METADATA_FIELDS[i]].vals :
              i \in {j \in DOMAIN METADATA_FIELDS :
                        metadata[METADATA_FIELDS[j]].kind # "absent"}}

\* Line 43 raises AttributeError when a truthy merged value is not a str.
ExtractRaises(metadata) == \E v \in MergedValues(metadata) : v \in Numbers

\* extract_keywords, when it returns.
extract_keywords(metadata) ==
    {Lower(keyword) : keyword \in {v \in MergedValues(metadata) : v # ""}}

\* get_synonyms(word): every lemma name of every synset of the word, lowercased,
\* with "_" replaced by " ". dictionary[word] holds those lemma names.
get_synonyms(dictionary, word) ==
    {ReplaceUnderscore(Lower(lemma)) : lemma \in dictionary[word]}

\* Line 48: singular_keywords.
SingularKeywords(keywords) ==
    [i \in DOMAIN keywords |-> handle_plurals(Lower(keywords[i]))]

\* Line 51: the keys of Counter(singular_keywords) in insertion order, that is
\* in order of first occurrence.
CounterKeys(singular) ==
    LET first == {i \in DOMAIN singular : \A j \in 1..(i - 1) : singular[j] # singular[i]}
    IN  SelectSeq([i \in DOMAIN singular |->
                      IF i \in first THEN singular[i] ELSE ""], LAMBDA x : x # "")

\* Line 51: the counts of Counter(singular_keywords).
CounterCounts(singular) ==
    [k \in Range(singular) |-> Cardinality({i \in DOMAIN singular : singular[i] = k})]

\* Line 58: group, for one iteration order of the set `synonyms`.
Group(keyword, synonymOrder, freq) ==
    <<keyword>> \o SelectSeq(synonymOrder, LAMBDA syn : syn \in DOMAIN freq)

\* Mutant of MaxFirst: the last item of group whose key is the largest, as a
\* hand-written loop comparing with >= would return.
MaxLast(group, freq) ==
    LET best == {i \in DOMAIN group :
                    \A j \in DOMAIN group : freq[group[j]] <= freq[group[i]]}
    IN  group[CHOOSE i \in best : \A j \in best : j <= i]

\* Mutant of MaxFirst: the most frequent keyword of the whole table, as
\* max(keyword_freq, key=...) would return.
MaxOfTable(group, freq) ==
    CHOOSE k \in DOMAIN freq : \A j \in DOMAIN freq : freq[j] <= freq[k]

\* Line 59: max(group, key=...) returns the first item of group whose key is
\* the largest.
MaxFirst(group, freq) ==
    LET best == {i \in DOMAIN group :
                    \A j \in DOMAIN group : freq[group[j]] <= freq[group[i]]}
    IN  group[Min(best)]

\* Lines 60-61: every member of group is (re)assigned main_keyword.
AssignGroup(groups, group, main_keyword) ==
    [k \in DOMAIN groups \cup Range(group) |->
        IF k \in Range(group) THEN main_keyword ELSE groups[k]]

\* Mutant of update_image_keywords: the keyword is looked up as it is, without
\* handle_plurals.
UpdateNoSingular(keywords, groups) ==
    {LET singular == Lower(keyword)
     IN  IF singular \in DOMAIN groups THEN groups[singular] ELSE singular
     : keyword \in keywords}

\* update_image_keywords(keywords, synonym_groups), lines 65-74.
update_image_keywords(keywords, groups) ==
    {LET singular == handle_plurals(Lower(keyword))
     IN  IF singular \in DOMAIN groups THEN groups[singular] ELSE singular
     : keyword \in keywords}

\* Mutant of KeywordsChanged: every file counts as changed, as when the set is
\* compared with a list.
AlwaysChanged(updated, keywords) == TRUE

\* Line 96: the test that decides whether a file is rewritten.
KeywordsChanged(updated, keywords) == updated # keywords

\* Lines 106-111: the tags update_metadata passes to set_tags.
NewTags(keywords) ==
    [field \in Range(METADATA_FIELDS) |->
        IF field = "MWG:Keywords" THEN List(keywords) ELSE List({})]

\* ------------------------------------------------------------------- inputs
\* Metadata of a file with the four fields as given.
Metadata(subject, iptc, mwg, keywords) ==
    [field \in Range(METADATA_FIELDS) |->
        CASE field = "XMP:Subject" -> subject
          [] field = "IPTC:Keywords" -> iptc
          [] field = "MWG:Keywords" -> mwg
          [] OTHER -> keywords]

\* The metadata a file of the directory may carry: no tags; a list with a
\* capitalised keyword; a scalar plural beside a list with an empty string; a
\* scalar beside an empty scalar; a list with a number in it.
MetadataSamples ==
    { Metadata(Absent, Absent, Absent, Absent),
      Metadata(List({"Hound", "dog", "hot dog"}), Absent, Absent, Absent),
      Metadata(Absent, Scalar("dogs"), Absent, List({"hot dog", ""})),
      Metadata(Scalar("hound"), Absent, Absent, Scalar("")),
      Metadata(Absent, List({"dog", "2024"}), Absent, Absent) }

\* The singular keywords, the only words get_synonyms is ever asked about.
Singulars == {handle_plurals(w) : w \in Words}

\* The lemma name of a word.
LemmaOf(w) == CHOOSE l \in LemmaNames : ReplaceUnderscore(Lower(l)) = w

\* Every dictionary over the vocabulary. A word's own lemma is left out: line 58
\* puts the keyword in front of its group whatever the dictionary says.
Dictionaries ==
    {d \in [Singulars -> SUBSET LemmaNames] : \A w \in Singulars : LemmaOf(w) \notin d[w]}

\* The dictionaries of the whole-program runs: the synonym pairs are among
\* dog-hound and dog-hot dog, one-way or both ways (not transitive, and not
\* always symmetric: synsets() lemmatises its argument, lemmas are not).
SampleDictionaries ==
    {d \in Dictionaries :
        /\ d["hound"] \subseteq {"dog"}
        /\ d["hot dog"] \subseteq {"dog"}
        /\ d["dog"] \in {{}, {"hound", "hot_dog"}}}

\* Every keyword list of at most MaxKeywords keywords.
KeywordLists == UNION {[1..n -> Words] : n \in 0..MaxKeywords}

\* -------------------------------------------------------------------- state
VARIABLES
    pc,                    \* where main is
    disk,                  \* file -> its metadata on disk
    wordnet,               \* the dictionary: word -> lemma names of its synsets
    walk_i,                \* files os.walk has yielded so far
    file_keywords,         \* process_directory: file -> extracted keyword set
    all_keywords,          \* process_directory: list of every extracted keyword
    keyword_order,         \* process_keywords: keys of keyword_freq, in order
    keyword_freq,          \* process_keywords: the Counter
    synonym_groups,        \* process_keywords: keyword -> canonical keyword
    pk_i,                  \* process_keywords: keys of keyword_freq visited
    canon_i,               \* process_directory: last file of the loop at line 94
    updated_keywords,      \* process_directory: updated_keywords of that file
    updated_file_keywords, \* file -> new keyword set, for the files to rewrite
    write_i,               \* update_metadata: last file of the loop at line 104
    set_tags_calls,        \* history: file -> number of set_tags calls
    errors,                \* the error lines printed, in order
    formed,                \* history: the groups formed at lines 57-61, in order
    disk0                  \* history: the metadata on disk when main started

vars ==
    <<pc, disk, wordnet, walk_i, file_keywords, all_keywords, keyword_order,
      keyword_freq, synonym_groups, pk_i, canon_i, updated_keywords,
      updated_file_keywords, write_i, set_tags_calls, errors, formed, disk0>>

walkVars == <<walk_i, file_keywords, all_keywords>>
pkVars == <<keyword_order, keyword_freq, synonym_groups, pk_i, formed>>
canonVars == <<canon_i, updated_keywords, updated_file_keywords>>
writeVars == <<disk, write_i, set_tags_calls>>

\* The empty dict.
EmptyDict == <<>>

\* State after main has read the directory path (line 122) and
\* process_directory has run lines 78-79.
InitLocals ==
    /\ pc = "walk"
    /\ file_keywords = EmptyDict
    /\ keyword_order = <<>>
    /\ keyword_freq = EmptyDict
    /\ synonym_groups = EmptyDict
    /\ pk_i = 0
    /\ canon_i = 0
    /\ updated_keywords = {}
    /\ updated_file_keywords = EmptyDict
    /\ write_i = 0
    /\ set_tags_calls = [f \in Files |-> 0]
    /\ errors = <<>>
    /\ formed = <<>>

Init ==
    /\ disk \in [Files -> MetadataSamples]
    /\ disk0 = disk
    /\ wordnet \in SampleDictionaries
    /\ walk_i = 0
    /\ all_keywords = <<>>
    /\ InitLocals

\* ------------------------------------------------------------------ actions
\* The dict d with d[key] = value added.
DictSet(d, key, value) ==
    [k \in DOMAIN d \cup {key} |-> IF k = key THEN value ELSE d[k]]

\* Mutant of WalkFinished: process_keywords is called after the first file.
WalkFinishedEarly == walk_i >= 1

\* Lines 81-82: the loops over os.walk are exhausted.
WalkFinished == walk_i = NumFiles

\* Lines 83-87: extraction of file f returns; the set is appended to all_keywords
\* in one of its iteration orders.
ExtractOk(f) ==
    /\ pc = "walk"
    /\ ~WalkFinished
    /\ f = walk_i + 1
    /\ ~ExtractRaises(disk[f])
    /\ LET keywords == extract_keywords(disk[f])
       IN  /\ \E order \in Perms(keywords) : all_keywords' = all_keywords \o order
           /\ file_keywords' = DictSet(file_keywords, f, keywords)
    /\ walk_i' = f
    /\ UNCHANGED <<pc, disk, wordnet, disk0, errors, set_tags_calls, write_i>>
    /\ UNCHANGED <<pkVars, canonVars>>

\* Mutant of ExtractFailed: the file's keywords reach all_keywords before the
\* exception does.
ExtractFailedKeepsKeywords(f) ==
    /\ pc = "walk"
    /\ walk_i < NumFiles
    /\ f = walk_i + 1
    /\ \E order \in Perms(extract_keywords(disk[f])) :
          all_keywords' = all_keywords \o order
    /\ errors' = Append(errors, [phase |-> "processing", file |-> f])
    /\ walk_i' = f
    /\ UNCHANGED <<pc, disk, wordnet, disk0, file_keywords, set_tags_calls, write_i,
                   keyword_order, keyword_freq, synonym_groups, pk_i, formed,
                   canon_i, updated_keywords, updated_file_keywords>>

\* Lines 83-85, 88-89: get_metadata raises for file f (any file may be
\* unreadable), or line 43 does; the error is printed and the file dropped.
ExtractFailed(f) ==
    /\ pc = "walk"
    /\ ~WalkFinished
    /\ f = walk_i + 1
    /\ errors' = Append(errors, [phase |-> "processing", file |-> f])
    /\ walk_i' = f
    /\ UNCHANGED <<pc, disk, wordnet, disk0, file_keywords, all_keywords,
                   set_tags_calls, write_i>>
    /\ UNCHANGED <<pkVars, canonVars>>

\* Line 91 and lines 48-54: process_keywords is called and builds the Counter.
ProcessKeywordsBegin ==
    /\ pc = "walk"
    /\ WalkFinished
    /\ LET singular_keywords == SingularKeywords(all_keywords)
       IN  /\ keyword_order' = CounterKeys(singular_keywords)
           /\ keyword_freq' = CounterCounts(singular_keywords)
    /\ synonym_groups' = EmptyDict
    /\ pk_i' = 0
    /\ pc' = "process_keywords"
    /\ UNCHANGED <<wordnet, disk0, errors, formed, walkVars, canonVars, writeVars>>

\* Lines 55-61 for a keyword that is not yet in synonym_groups.
FormGroup ==
    /\ pc = "process_keywords"
    /\ pk_i < Len(keyword_order)
    /\ LET keyword == keyword_order[pk_i + 1]
       IN  /\ keyword \notin DOMAIN synonym_groups
           /\ \E order \in Perms(get_synonyms(wordnet, keyword)) :
                LET group == Group(keyword, order, keyword_freq)
                    main_keyword == MaxFirst(group, keyword_freq)
                IN  /\ synonym_groups' = AssignGroup(synonym_groups, group, main_keyword)
                    /\ formed' = Append(formed, [keyword |-> keyword, group |-> group,
                                                 main_keyword |-> main_keyword])
    /\ pk_i' = pk_i + 1
    /\ UNCHANGED <<pc, wordnet, disk0, errors, keyword_order, keyword_freq,
                   walkVars, canonVars, writeVars>>

\* Lines 55-56 for a keyword that is already in synonym_groups.
SkipKeyword ==
    /\ pc = "process_keywords"
    /\ pk_i < Len(keyword_order)
    /\ keyword_order[pk_i + 1] \in DOMAIN synonym_groups
    /\ pk_i' = pk_i + 1
    /\ UNCHANGED <<pc, wordnet, disk0, errors, keyword_order, keyword_freq,
                   synonym_groups, formed, walkVars, canonVars, writeVars>>

\* Line 63: process_keywords returns.
ProcessKeywordsReturn ==
    /\ pc = "process_keywords"
    /\ pk_i = Len(keyword_order)
    /\ pc' = "canonicalize"
    /\ UNCHANGED <<wordnet, disk0, errors, pkVars, walkVars, canonVars, writeVars>>

\* Lines 94-95: the next file of file_keywords is canonicalised.
Canonicalize ==
    /\ pc = "canonicalize"
    /\ KeysAfter(file_keywords, canon_i) # {}
    /\ LET file_path == Min(KeysAfter(file_keywords, canon_i))
       IN  /\ updated_keywords' =
                 update_image_keywords(file_keywords[file_path], synonym_groups)
           /\ canon_i' = file_path
    /\ pc' = "compare"
    /\ UNCHANGED <<wordnet, disk0, errors, updated_file_keywords, pkVars, walkVars,
                   writeVars>>

\* Lines 96-97: the file's set changed and is kept for rewriting.
CompareChanged ==
    /\ pc = "compare"
    /\ KeywordsChanged(updated_keywords, file_keywords[canon_i])
    /\ updated_file_keywords' = DictSet(updated_file_keywords, canon_i, updated_keywords)
    /\ pc' = "canonicalize"
    /\ UNCHANGED <<wordnet, disk0, errors, canon_i, updated_keywords, pkVars,
                   walkVars, writeVars>>

\* Line 96: the file's set is unchanged.
CompareUnchanged ==
    /\ pc = "compare"
    /\ ~KeywordsChanged(updated_keywords, file_keywords[canon_i])
    /\ pc' = "canonicalize"
    /\ UNCHANGED <<wordnet, disk0, errors, canonVars, pkVars, walkVars, writeVars>>

\* Lines 99, 125 and 127: process_directory returns and main calls update_metadata.
ProcessDirectoryReturn ==
    /\ pc = "canonicalize"
    /\ KeysAfter(file_keywords, canon_i) = {}
    /\ pc' = "update_metadata"
    /\ UNCHANGED <<wordnet, disk0, errors, canonVars, pkVars, walkVars, writeVars>>

\* Lines 104-117: set_tags on file f returns; the tags are on disk.
SetTagsOk(f) ==
    /\ pc = "update_metadata"
    /\ KeysAfter(updated_file_keywords, write_i) # {}
    /\ f = Min(KeysAfter(updated_file_keywords, write_i))
    /\ disk' = [disk EXCEPT ![f] = NewTags(updated_file_keywords[f])]
    /\ set_tags_calls' = [set_tags_calls EXCEPT ![f] = @ + 1]
    /\ write_i' = f
    /\ UNCHANGED <<pc, wordnet, disk0, errors, pkVars, walkVars, canonVars>>

\* Mutant of SetTagsFailed: the exception leaves update_metadata and ends main.
SetTagsFailedAborts(f) ==
    /\ pc = "update_metadata"
    /\ KeysAfter(updated_file_keywords, write_i) # {}
    /\ f = Min(KeysAfter(updated_file_keywords, write_i))
    /\ set_tags_calls' = [set_tags_calls EXCEPT ![f] = @ + 1]
    /\ errors' = Append(errors, [phase |-> "updating", file |-> f])
    /\ write_i' = f
    /\ pc' = "done"
    /\ UNCHANGED <<disk, wordnet, disk0, walk_i, file_keywords, all_keywords,
                   keyword_order, keyword_freq, synonym_groups, pk_i, formed,
                   canon_i, updated_keywords, updated_file_keywords>>

\* Mutant of SetTagsFailed: the file is tried again.
SetTagsFailedRetries(f) ==
    /\ pc = "update_metadata"
    /\ KeysAfter(updated_file_keywords, write_i) # {}
    /\ f = Min(KeysAfter(updated_file_keywords, write_i))
    /\ set_tags_calls' = [set_tags_calls EXCEPT ![f] = @ + 1]
    /\ errors' = Append(errors, [phase |-> "updating", file |-> f])
    /\ UNCHANGED <<pc, write_i, disk, wordnet, disk0, walk_i, file_keywords,
                   all_keywords, keyword_order, keyword_freq, synonym_groups, pk_i,
                   formed, canon_i, updated_keywords, updated_file_keywords>>

\* Lines 104-119: set_tags on file f raises; the tool leaves the original file
\* in place, the error is printed and the loop goes on.
SetTagsFailed(f) ==
    /\ pc = "update_metadata"
    /\ KeysAfter(updated_file_keywords, write_i) # {}
    /\ f = Min(KeysAfter(updated_file_keywords, write_i))
    /\ set_tags_calls' = [set_tags_calls EXCEPT ![f] = @ + 1]
    /\ errors' = Append(errors, [phase |-> "updating", file |-> f])
    /\ write_i' = f
    /\ UNCHANGED <<pc, disk, wordnet, disk0, pkVars, walkVars, canonVars>>

\* Lines 104 and 130: update_metadata returns and main ends.
UpdateMetadataReturn ==
    /\ pc = "update_metadata"
    /\ KeysAfter(updated_file_keywords, write_i) = {}
    /\ pc' = "done"
    /\ UNCHANGED <<wordnet, disk0, errors, pkVars, walkVars, canonVars, writeVars>>

Next ==
    \/ \E f \in Files : ExtractOk(f)
    \/ \E f \in Files : ExtractFailed(f)
    \/ ProcessKeywordsBegin
    \/ FormGroup
    \/ SkipKeyword
    \/ ProcessKeywordsReturn
    \/ Canonicalize
    \/ CompareChanged
    \/ CompareUnchanged
    \/ ProcessDirectoryReturn
    \/ \E f \in Files : SetTagsOk(f)
    \/ \E f \in Files : SetTagsFailed(f)
    \/ UpdateMetadataReturn

Spec == Init /\ [][Next]_vars

\* process_keywords on its own, as a function of its argument: called with any
\* keyword list (lowercase, as extract_keywords leaves them) under any dictionary.
InitPK ==
    /\ disk = [f \in Files |-> Metadata(Absent, Absent, Absent, Absent)]
    /\ disk0 = disk
    /\ wordnet \in Dictionaries
    /\ walk_i = NumFiles
    /\ all_keywords \in KeywordLists
    /\ InitLocals

NextPK ==
    \/ ProcessKeywordsBegin
    \/ FormGroup
    \/ SkipKeyword
    \/ ProcessKeywordsReturn

SpecPK == InitPK /\ [][NextPK]_vars

\* ------------------------------------------------------------------- claims
\* process_keywords has returned: synonym_groups is the final mapping.
PKReturned == pc \notin {"walk", "process_keywords"}

\* The largest frequency among the members of a group.
MaxFreq(members) ==
    CHOOSE n \in {keyword_freq[m] : m \in members} :
        \A m \in members : keyword_freq[m] <= n

\* The members of a group that share its largest frequency.
Tied(members) == {m \in members : keyword_freq[m] = MaxFreq(members)}

\* The position of a keyword in the encounter order of distinct keywords.
Encounter(k) == CHOOSE i \in DOMAIN keyword_order : keyword_order[i] = k

\* C1: once process_keywords has returned, every group formed during the loop
\* has one canonical term: all its members map to it in the final mapping, it
\* is a member of the group, and no member is more frequent.
C1_GroupsShareCanonical ==
    PKReturned =>
        \A i \in DOMAIN formed :
            LET G == Range(formed[i].group)
            IN  \E c \in G :
                    /\ \A m \in G : synonym_groups[m] = c
                    /\ \A m \in G : keyword_freq[m] <= keyword_freq[c]

\* C2: the final mapping is idempotent: a canonical term maps to itself, so
\* canonicalising an already canonicalised keyword set changes nothing.
C2_Idempotent ==
    PKReturned =>
        /\ \A k \in DOMAIN synonym_groups :
              synonym_groups[synonym_groups[k]] = synonym_groups[k]
        /\ \A S \in SUBSET Words :
              LET once == update_image_keywords(S, synonym_groups)
              IN  update_image_keywords(once, synonym_groups) = once

\* C9 as stated: when several members of a group share the largest frequency,
\* the one chosen is the tied member encountered first in the corpus.
C9_FirstEncounteredWins ==
    \A i \in DOMAIN formed :
        LET tied == Tied(Range(formed[i].group))
        IN  \A m \in tied : Encounter(formed[i].main_keyword) <= Encounter(m)

\* C9 as amended: the one chosen is the tied member that comes first in the
\* group list: the triggering keyword if it is tied, and otherwise the tied
\* synonym that the iteration of the synonym set yields first.
C9_FirstInGroupWins ==
    \A i \in DOMAIN formed :
        LET group == formed[i].group
            tied == Tied(Range(group))
        IN  /\ formed[i].main_keyword \in tied
            /\ formed[i].keyword \in tied => formed[i].main_keyword = formed[i].keyword
            /\ \A j \in DOMAIN group :
                  group[j] \in tied =>
                      \E n \in 1..j : group[n] = formed[i].main_keyword

\* C9 witness: a group whose largest frequency is shared by two synonyms and
\* not by the triggering keyword, the one encountered later being chosen.
C9_Witness ==
    \E i \in DOMAIN formed :
        LET tied == Tied(Range(formed[i].group))
        IN  /\ Cardinality(tied) > 1
            /\ formed[i].keyword \notin tied
            /\ \E m \in tied : Encounter(m) < Encounter(formed[i].main_keyword)

\* The files whose extraction raised, and the files whose set_tags raised.
Skipped == {errors[i].file : i \in {j \in DOMAIN errors : errors[j].phase = "processing"}}
WriteFailed == {errors[i].file : i \in {j \in DOMAIN errors : errors[j].phase = "updating"}}

\* The files that were collected.
Collected == DOMAIN file_keywords

\* The canonicalised keyword set of a collected file under the final mapping:
\* singularisation, then canonical substitution.
CanonicalSet(f) ==
    {LET singular == handle_plurals(Lower(k))
     IN  IF singular \in DOMAIN synonym_groups THEN synonym_groups[singular] ELSE singular
     : k \in file_keywords[f]}

\* The singularised keywords of the corpus.
CorpusSingulars == {handle_plurals(Lower(all_keywords[i])) : i \in DOMAIN all_keywords}

\* C3: set_tags is called on a collected file only if its canonicalised set
\* differs from its extracted set, and by the end of the run it has been called
\* on every collected file whose set differs.
C3_WriteIffChanged ==
    /\ \A f \in Files :
          set_tags_calls[f] > 0 =>
              /\ f \in Collected
              /\ PKReturned
              /\ CanonicalSet(f) # file_keywords[f]
    /\ pc = "done" =>
          \A f \in Collected :
              CanonicalSet(f) # file_keywords[f] => set_tags_calls[f] > 0

\* C3 witness: the run is over, one collected file was written and another
\* collected file with keywords was left alone.
C3_Witness ==
    /\ pc = "done"
    /\ \E f, g \in Collected :
          /\ set_tags_calls[f] = 1
          /\ set_tags_calls[g] = 0
          /\ file_keywords[g] # {}

\* How often keyword w was extracted from the collected files.
CollectedCount(w) == Cardinality({f \in Collected : w \in file_keywords[f]})

\* How often the collected files' keywords singularise to s.
CollectedSingularCount(s) ==
    Cardinality({fw \in Collected \X (Words \cup Numbers) :
                    /\ fw[2] \in file_keywords[fw[1]]
                    /\ handle_plurals(Lower(fw[2])) = s})

\* C4: a file whose extraction raised is in no later stage: it has no entry in
\* file_keywords, the keyword list and the frequency table count the collected
\* files' keywords only, and it is never written; every other file is collected,
\* and written when its set changes.
C4_SkippedExcluded ==
    /\ \A f \in Skipped :
          /\ f \notin Collected
          /\ f \notin DOMAIN updated_file_keywords
          /\ set_tags_calls[f] = 0
          /\ disk[f] = disk0[f]
    /\ \A w \in Words \cup Numbers :
          Cardinality({i \in DOMAIN all_keywords : all_keywords[i] = w}) = CollectedCount(w)
    /\ pc # "walk" =>
          /\ Collected = Files \ Skipped
          /\ \A s \in Singulars \cup Numbers :
                CollectedSingularCount(s) =
                    IF s \in DOMAIN keyword_freq THEN keyword_freq[s] ELSE 0
    /\ pc = "done" =>
          \A f \in Files \ Skipped :
              set_tags_calls[f] = IF CanonicalSet(f) # file_keywords[f] THEN 1 ELSE 0

\* C4 witness: extraction raised for the first file, which has keywords on
\* disk, and the second file was collected and written.
C4_Witness ==
    /\ pc = "done"
    /\ 1 \in Skipped
    /\ MergedValues(disk0[1]) # {}
    /\ 2 \in Collected
    /\ set_tags_calls[2] = 1

\* C5: a set_tags call that raises does not end the write pass: no file gets a
\* second call, the pass is never stuck before the end of main, and at the end
\* every changed file has had exactly one call.
C5_WritePassCompletes ==
    /\ \A f \in Files : set_tags_calls[f] <= 1
    /\ pc = "update_metadata" => ENABLED Next
    /\ pc = "done" => \A f \in DOMAIN updated_file_keywords : set_tags_calls[f] = 1

\* C5 witness: set_tags raised for one changed file and a later changed file
\* still had its call.
C5_Witness ==
    /\ pc = "done"
    /\ \E f, g \in DOMAIN updated_file_keywords :
          /\ f < g
          /\ f \in WriteFailed
          /\ set_tags_calls[g] = 1

\* C6: set_tags is called only once the loop of process_keywords has visited
\* every key of the frequency table and returned, and process_keywords starts
\* only once every file has been collected or skipped.
C6_PhaseOrder ==
    /\ (\E f \in Files : set_tags_calls[f] > 0) =>
          /\ PKReturned
          /\ pk_i = Len(keyword_order)
          /\ Range(keyword_order) = CorpusSingulars
          /\ DOMAIN synonym_groups = CorpusSingulars
    /\ (pc # "walk" \/ DOMAIN synonym_groups # {}) =>
          \A f \in Files : f \in Collected \cup Skipped

\* C6 witness: a file has been written after a mapping with a synonym
\* substitution in it was computed over a corpus of two collected files.
C6_Witness ==
    /\ \E f \in Files : set_tags_calls[f] > 0
    /\ \E k \in DOMAIN synonym_groups : synonym_groups[k] # k
    /\ Cardinality(Collected) = NumFiles

\* The state of a file in the state machine of the writer.
FileState(f) ==
    IF f \in WriteFailed THEN "Failed"
    ELSE IF set_tags_calls[f] > 0 THEN "Rewritten"
    ELSE IF f \in Collected /\ PKReturned /\ f <= canon_i
         THEN IF f \in DOMAIN updated_file_keywords \/ (pc = "compare" /\ f = canon_i)
              THEN "Canonicalized"
              ELSE "Unchanged"
    ELSE IF f \in Collected THEN "Collected"
    ELSE "Unprocessed"

\* The moves of the state machine.
FileMoves ==
    { <<"Unprocessed", "Collected">>, <<"Collected", "Canonicalized">>,
      <<"Canonicalized", "Unchanged">>, <<"Canonicalized", "Rewritten">>,
      <<"Canonicalized", "Failed">> }

FinalStates == {"Unchanged", "Rewritten", "Failed"}

\* Every step moves every file by one move of the state machine, or not at all.
FileStep == \A f \in Files : FileState(f)' # FileState(f) => <<FileState(f), FileState(f)'>> \in FileMoves

\* No file has a second set_tags call, and a Failed file is on disk as it was.
FileSafe ==
    \A f \in Files :
        /\ set_tags_calls[f] <= 1
        /\ FileState(f) = "Failed" => disk[f] = disk0[f]

\* C8 as stated: every file moves through the state machine, has at most one
\* write attempt, stays as it was on disk when Failed, and ends in one of
\* Unchanged, Rewritten, Failed.
C8_EveryFileEndsFinal ==
    /\ [][FileStep]_vars
    /\ [](FileSafe)
    /\ [](pc = "done" => \A f \in Files : FileState(f) \in FinalStates)

\* C8 as amended: the same for every file whose extraction returned; a file
\* whose extraction raised stays Unprocessed to the end of the run.
C8_FileLifecycle ==
    /\ [][FileStep]_vars
    /\ [](FileSafe)
    /\ [](pc = "done" =>
            \A f \in Files :
                IF f \in Skipped
                THEN FileState(f) = "Unprocessed"
                ELSE FileState(f) \in FinalStates)

\* C8 witness: at the end of the run one file is Failed and another Unchanged.
C8_Witness ==
    /\ pc = "done"
    /\ \E f, g \in Files : FileState(f) = "Failed" /\ FileState(g) = "Unchanged"

\* C10: the mapping is total and closed over the frequency table, the identity
\* fallback of update_image_keywords is never taken for a collected keyword, and
\* what is written to a file is a non-empty set of singularised corpus keywords
\* no larger than the set extracted from the file.
C10_TotalAndClosed ==
    /\ PKReturned =>
          /\ \A k \in CorpusSingulars : k \in DOMAIN synonym_groups
          /\ \A k \in DOMAIN synonym_groups : synonym_groups[k] \in DOMAIN keyword_freq
          /\ \A f \in Collected : \A k \in file_keywords[f] :
                handle_plurals(Lower(k)) \in DOMAIN synonym_groups
    /\ \A f \in DOMAIN updated_file_keywords :
          /\ updated_file_keywords[f] # {}
          /\ updated_file_keywords[f] \subseteq CorpusSingulars
          /\ Cardinality(updated_file_keywords[f]) <= Cardinality(file_keywords[f])
    /\ \A f \in Files :
          disk[f] # disk0[f] =>
              /\ MergedValues(disk[f]) # {}
              /\ MergedValues(disk[f]) \subseteq CorpusSingulars
              /\ Cardinality(MergedValues(disk[f])) <= Cardinality(file_keywords[f])

\* C10 witness: a file was rewritten with fewer keywords than were extracted
\* from it.
C10_Witness ==
    \E f \in Files :
        /\ disk[f] # disk0[f]
        /\ Cardinality(MergedValues(disk[f])) < Cardinality(file_keywords[f])

\* A keyword none of whose synonyms occur in the frequency table.
NoSynonymInCorpus(k) == get_synonyms(wordnet, k) \cap DOMAIN keyword_freq = {}

\* A keyword that no other keyword of the frequency table has as a synonym.
NobodysSynonym(k) ==
    \A other \in DOMAIN keyword_freq \ {k} : k \notin get_synonyms(wordnet, other)

\* The files whose only keyword is k.
OnlyKeyword(k) == {f \in Collected : file_keywords[f] = {k}}

\* C7 as stated: a keyword none of whose synonyms occur in the frequency table
\* maps to itself in the final mapping, and a file whose only keyword it is, in
\* singular form, is not rewritten.
C7_NoSynonymMapsToItself ==
    PKReturned =>
        \A k \in DOMAIN keyword_freq :
            NoSynonymInCorpus(k) =>
                /\ synonym_groups[k] = k
                /\ \A f \in OnlyKeyword(k) :
                      /\ f \notin DOMAIN updated_file_keywords
                      /\ set_tags_calls[f] = 0

\* C7 as amended: the same for a keyword that, besides, is in the synonym set
\* of no other keyword of the frequency table.
C7_SingletonMapsToItself ==
    PKReturned =>
        \A k \in DOMAIN keyword_freq :
            (NoSynonymInCorpus(k) /\ NobodysSynonym(k)) =>
                /\ synonym_groups[k] = k
                /\ \A f \in OnlyKeyword(k) :
                      /\ f \notin DOMAIN updated_file_keywords
                      /\ set_tags_calls[f] = 0

\* C7 witness: at the end of the run a file whose only keyword is such a
\* keyword was left alone, while another file was rewritten with a synonym.
C7_Witness ==
    /\ pc = "done"
    /\ \E k \in DOMAIN keyword_freq :
          /\ NoSynonymInCorpus(k)
          /\ NobodysSynonym(k)
          /\ OnlyKeyword(k) # {}
          /\ \E g \in Files : set_tags_calls[g] = 1 /\ g \notin WriteFailed

====
